---------------------------- MODULE Spec2Model ----------------------------
(***************************************************************************)
(* Model of two view components of the hackathon admin application:        *)
(*                                                                         *)
(*   - the live-round team dashboard (src/unnamed/part_000): filterable,   *)
(*     paginated team list fetched through fetchTeams, re-fetched by an    *)
(*     effect on every filter change and extended by infinite scroll;      *)
(*   - RepositoriesComponent (src/src/sections/projects/repositories.tsx): *)
(*     URL entry list, redirect-based linking, repository deletion and     *)
(*     the handling of the return query string.                            *)
(*                                                                         *)
(* An async handler is split at its await: one action issues the request   *)
(* (capturing the values its closure holds at that render), another        *)
(* handles the response with the captured values and the functional        *)
(* updates applied to the current state.                                   *)
(***************************************************************************)
EXTENDS Integers, Sequences, FiniteSets, Bags, TLC

(***************************************************************************)
(* Bounds of the model.                                                    *)
(***************************************************************************)
MaxEpoch == 2        \* runs of the filter effect (the mount run included)
MaxPage == 3         \* page cursor + outstanding fetches never exceeds this
MaxInflight == 2     \* team-list fetches outstanding at once
MaxEntries == 3      \* entries of the URL list
MaxDeletes == 2      \* repository deletes outstanding at once
MaxServerTeams == 41 \* teams the server holds for a filter combination

(***************************************************************************)
(* Program constants.                                                      *)
(***************************************************************************)
PageLimit == 20      \* limit=${20} in the teams URL

None == "<none>"                     \* undefined / null / absent
SERVER_ERROR == "<SERVER_ERROR>"     \* '@/config/errors'

(***************************************************************************)
(* Input domains.                                                          *)
(***************************************************************************)
SearchValues == {"", "alpha"}
TrackValues == {"", "none"}
EliminatedValues == {"", "eliminated"}
ScoreValues == {0, 5}
OrderValues == {"latest", "oldest"}
MessageValues == {None, "", "teams unavailable"}
ErrorCodes == {500}

\* the pages of teams (lists of team identifiers) the server may answer with
TeamPages == {<<>>, <<1>>, <<2>>}

\* bodies of the responses of the teams endpoint: { teams?, message? }
OkResponses ==
    {[statusCode |-> 200, hasTeams |-> TRUE, teams |-> t, message |-> None] :
        t \in TeamPages}
    \cup {[statusCode |-> 200, hasTeams |-> FALSE, teams |-> <<>>, message |-> None]}

ErrResponses ==
    {[statusCode |-> c, hasTeams |-> FALSE, teams |-> <<>>, message |-> m] :
        c \in ErrorCodes, m \in MessageValues}

VARIABLES
    \* ---- team dashboard (Index) --------------------------------------
    nav,            \* "unmounted" | "live" | "redirected"
    hackathonId,    \* hackathon.id is truthy
    teams,          \* useState<HackathonTeam[]>([])
    page,           \* useState(0)
    loading,        \* useState(true)
    hasMore,        \* useState(true)
    search, track, eliminated, overallScore, order,   \* the filter inputs
    inflight,       \* bag of outstanding fetchTeams requests
    toast,          \* the Toaster.error notification the last step emitted, if any
    \* ---- history variables of the dashboard ---------------------------
    epoch,          \* number of runs of the filter effect
    last,           \* the most recent operation, with the response it handled
    lastMerged,     \* the most recent 200 response merged since the last reset
    merged,         \* URL pages of the current epoch's requests merged since the reset
    \* ---- RepositoriesComponent ---------------------------------------
    repoNav,        \* "unmounted" | "live" | "redirected"
    githubRepos,    \* useState<GithubRepo[]>([]): the ids of the linked repositories
    newRepos,       \* useState<string[]>([''])
    repoLoading,    \* useState<boolean>(true)
    repoError,      \* useState<string | null>(null)
    query,          \* the query of the visible URL (router.query)
    githubUsername, \* the store's value set by dispatch(setGithubUsername(..))
    repoInflight,   \* bag of outstanding GET / DELETE requests
    repoToast,      \* the Toaster notification the last step emitted, if any
    submitted,      \* the entries handed to the redirect URL by handleSaveRepositories
    \* ---- history variables of the component ---------------------------
    returnQuery,    \* the query string the page was opened with
    repoLast,       \* the most recent operation and the repository it was about
    \* ---- environment ---------------------------------------------------
    serverTeams     \* the teams the server holds for the filter combination, in order

teamVars == <<nav, hackathonId, teams, page, loading, hasMore,
              search, track, eliminated, overallScore, order,
              inflight, toast, epoch, last, lastMerged, merged>>

repoVars == <<repoNav, githubRepos, newRepos, repoLoading, repoError, query,
              githubUsername, repoInflight, repoToast, submitted, returnQuery, repoLast>>

vars == <<teamVars, repoVars, serverTeams>>

Truthy(s) == s # None /\ s # ""

(***************************************************************************)
(* fetchTeams, lines 67-72: the URL.  initialPage = 0 stands for an        *)
(* omitted argument.  The query string is kept as the list of its          *)
(* key/value pairs.                                                        *)
(***************************************************************************)
UrlPage(initialPage, pg) == IF initialPage # 0 THEN initialPage ELSE pg

TeamsURL(initialPage, pg, s, t, e, os, o) ==
    << <<"page", ToString(UrlPage(initialPage, pg))>>,
       <<"limit", ToString(PageLimit)>>,
       <<"search", s>> >>
    \o (IF t # "" /\ t # "none" THEN << <<"track_id", t>> >> ELSE << >>)
    \o (IF os # 0 THEN << <<"overall_score", ToString(os)>> >> ELSE << >>)
    \o (IF e # "" /\ e # "none"
          THEN << <<"is_eliminated", IF e = "eliminated" THEN "true" ELSE "false">> >>
          ELSE << >>)
    \o << <<"order", o>> >>

\* A call of fetchTeams up to its await: what the request and the closure hold.
\* signal: an AbortController was passed; teams: the list the closure captured;
\* urlPage / epoch: the page in the URL and the effect run it was issued under.
FetchRequest(signal, initialPage, pg, tms, s, t, e, os, o, ep) ==
    [signal      |-> signal,
     initialPage |-> initialPage,
     url         |-> TeamsURL(initialPage, pg, s, t, e, os, o),
     urlPage     |-> UrlPage(initialPage, pg),
     teams       |-> tms,
     epoch       |-> ep]

NoReq == [signal |-> FALSE, initialPage |-> 0, url |-> <<>>, urlPage |-> 0,
          teams |-> <<>>, epoch |-> 0]
NoRes == [statusCode |-> 0, hasTeams |-> FALSE, teams |-> <<>>, message |-> None]

\* res.data.teams || []
TeamsOrEmpty(res) == IF res.hasTeams THEN res.teams ELSE <<>>

\* line 79
AddedTeams(req, res) == req.teams \o TeamsOrEmpty(res)

\* mutant: the page-1 test of line 76 dropped, every response is appended
MergedTeamsAlwaysAppend(req, res) == AddedTeams(req, res)

\* lines 76-82: the list after a 200 response
MergedTeams(req, res) ==
    IF req.initialPage = 1 THEN TeamsOrEmpty(res) ELSE AddedTeams(req, res)

\* mutant: < written for ===, so that no append ever counts as exhausting
ExhaustedOnShrink(req, res) ==
    req.initialPage # 1 /\ Len(AddedTeams(req, res)) < Len(req.teams)

\* mutant: growth measured against the list held now, not the captured one
ExhaustedAgainstHeld(req, res) ==
    req.initialPage # 1 /\ Len(AddedTeams(req, res)) = Len(teams)

\* line 80
Exhausted(req, res) ==
    req.initialPage # 1 /\ Len(AddedTeams(req, res)) = Len(req.teams)

\* mutant: the server message is ignored
ErrorToastGeneric(res) == SERVER_ERROR

\* lines 86-87
ErrorToast(res) == IF Truthy(res.message) THEN res.message ELSE SERVER_ERROR

\* abortController.abort(): getHandler was given the signal, the request is
\* cancelled and its response is never handled.
Abort(bag) ==
    LET keep == {r \in BagToSet(bag) : ~r.signal}
    IN  [r \in keep |-> bag[r]]

Issue(bag, r) == bag (+) SetToBag({r})
Settle(bag, r) == bag (-) SetToBag({r})

TeamInit ==
    /\ nav = "unmounted"
    /\ hackathonId \in BOOLEAN
    /\ teams = <<>>
    /\ page = 0
    /\ loading = TRUE
    /\ hasMore = TRUE
    /\ search = ""
    /\ track = ""
    /\ eliminated = ""
    /\ overallScore = 0
    /\ order = "latest"
    /\ inflight = EmptyBag
    /\ toast = None
    /\ epoch = 0
    /\ last = [op |-> "init", res |-> NoRes]
    /\ lastMerged = [req |-> NoReq, returned |-> <<>>]
    /\ merged = <<>>

(***************************************************************************)
(* The filter effect, lines 93-109, run after a render with the filter     *)
(* values s, t, e, os, o: the previous run's cleanup aborts its            *)
(* controller, then the body resets the list and fetches page 1.           *)
(***************************************************************************)
FilterEffect(op, s, t, e, os, o) ==
    /\ epoch' = epoch + 1
    /\ last' = [op |-> op, res |-> NoRes]
    /\ IF ~hackathonId
         THEN /\ nav' = "redirected"
              /\ inflight' = Abort(inflight)
              /\ UNCHANGED <<teams, page, loading, hasMore, lastMerged, merged>>
         ELSE /\ nav' = "live"
              /\ page' = 1
              /\ teams' = <<>>
              /\ hasMore' = TRUE
              /\ loading' = TRUE
              /\ inflight' = Issue(Abort(inflight),
                                   FetchRequest(TRUE, 1, page, teams, s, t, e, os, o, epoch + 1))
              /\ lastMerged' = [req |-> NoReq, returned |-> <<>>]
              /\ merged' = <<>>
    /\ toast' = None
    /\ UNCHANGED <<hackathonId, repoVars, serverTeams>>

Mount ==
    /\ nav = "unmounted"
    /\ FilterEffect("mount", search, track, eliminated, overallScore, order)
    /\ UNCHANGED <<search, track, eliminated, overallScore, order>>

CanChangeFilter == nav = "live" /\ epoch < MaxEpoch

SetSearch ==
    \E v \in SearchValues \ {search} :
        /\ CanChangeFilter
        /\ search' = v
        /\ FilterEffect("filter", v, track, eliminated, overallScore, order)
        /\ UNCHANGED <<track, eliminated, overallScore, order>>

SetTrack ==
    \E v \in TrackValues \ {track} :
        /\ CanChangeFilter
        /\ track' = v
        /\ FilterEffect("filter", search, v, eliminated, overallScore, order)
        /\ UNCHANGED <<search, eliminated, overallScore, order>>

SetEliminated ==
    \E v \in EliminatedValues \ {eliminated} :
        /\ CanChangeFilter
        /\ eliminated' = v
        /\ FilterEffect("filter", search, track, v, overallScore, order)
        /\ UNCHANGED <<search, track, overallScore, order>>

SetOverallScore ==
    \E v \in ScoreValues \ {overallScore} :
        /\ CanChangeFilter
        /\ overallScore' = v
        /\ FilterEffect("filter", search, track, eliminated, v, order)
        /\ UNCHANGED <<search, track, eliminated, order>>

SetOrder ==
    \E v \in OrderValues \ {order} :
        /\ CanChangeFilter
        /\ order' = v
        /\ FilterEffect("filter", search, track, eliminated, overallScore, v)
        /\ UNCHANGED <<search, track, eliminated, overallScore>>

\* next(): fetchTeams() up to its await, with the values of the current render
CallNext ==
    /\ inflight' = Issue(inflight,
                         FetchRequest(FALSE, 0, page, teams, search, track,
                                      eliminated, overallScore, order, epoch))
    /\ last' = [op |-> "next", res |-> NoRes]
    /\ toast' = None
    /\ UNCHANGED <<nav, hackathonId, teams, page, loading, hasMore,
                   search, track, eliminated, overallScore, order,
                   epoch, lastMerged, merged, repoVars, serverTeams>>

(***************************************************************************)
(* InfiniteScroll next={fetchTeams} hasMore={hasMore}, line 233: the       *)
(* component calls next() with no argument while hasMore holds.            *)
(***************************************************************************)
FetchNext ==
    /\ nav = "live"
    /\ hasMore
    /\ BagCardinality(inflight) < MaxInflight
    /\ page + BagCardinality(inflight) < MaxPage
    /\ CallNext

\* fetchTeams after its await, lines 75-84
HandleOk(req, res) ==
        /\ nav = "live"
        /\ inflight' = Settle(inflight, req)
        /\ teams' = MergedTeams(req, res)
        /\ hasMore' = IF Exhausted(req, res) THEN FALSE ELSE hasMore
        /\ page' = page + 1
        /\ loading' = FALSE
        /\ last' = [op |-> "ok", res |-> NoRes]
        /\ lastMerged' = [req |-> req, returned |-> TeamsOrEmpty(res)]
        /\ merged' = IF req.epoch = epoch THEN Append(merged, req.urlPage) ELSE merged
        /\ toast' = None
        /\ UNCHANGED <<nav, hackathonId, search, track, eliminated, overallScore,
                       order, epoch, repoVars, serverTeams>>

\* a 200 response to an outstanding request, with any page of teams
FetchOk ==
    \E req \in BagToSet(inflight), res \in OkResponses : HandleOk(req, res)

\* fetchTeams after its await, lines 85-88
FetchError ==
    \E req \in BagToSet(inflight), res \in ErrResponses :
        /\ nav = "live"
        /\ inflight' = Settle(inflight, req)
        /\ toast' = ErrorToast(res)
        /\ last' = [op |-> "err", res |-> res]
        /\ UNCHANGED <<nav, hackathonId, teams, page, loading, hasMore,
                       search, track, eliminated, overallScore, order,
                       epoch, lastMerged, merged, repoVars, serverTeams>>

(***************************************************************************)
(* RepositoriesComponent, src/src/sections/projects/repositories.tsx       *)
(***************************************************************************)
EntryValues == {"", "not-a-url", "https://github.com/org/repo"}

\* the entry values validator's isURL accepts
ValidURLs == {"https://github.com/org/repo"}

\* the lists the connections endpoint may answer with
ServerRepoLists == {<<>>, <<1, 2>>, <<1, 2, 3>>}

StatusValues == {None, "", "0", "1", "2"}
UsernameValues == {None, "alice"}
ReturnMessageValues == {None, "", "denied"}
TabValues == {None, "repos"}
DeleteMessageValues == {None, "not allowed"}

FETCH_FAILED == "Failed to fetch repositories"
DELETE_FAILED == "Failed to delete repository"
DELETED == "Repository deleted successfully"

NoToast == [level |-> None, text |-> None]

\* isURL(repo), imported at line 10
isURL(str) == str \in ValidURLs

\* mutant: some instead of every
isValidSome == \E i \in 1..Len(newRepos) : isURL(newRepos[i])

\* mutant: empty entries are skipped
isValidNonEmpty == \A i \in 1..Len(newRepos) : newRepos[i] # "" => isURL(newRepos[i])

\* line 64
isValid == \A i \in 1..Len(newRepos) : isURL(newRepos[i])

\* lines 119-129: the early returns that replace the component's body
Rendered == repoNav = "live" /\ ~repoLoading /\ repoError = None

\* line 169: the submit button is rendered
SubmitAvailable == Rendered /\ Len(newRepos) > 0

\* line 172: disabled={!isValid}
SubmitEnabled == SubmitAvailable /\ isValid

\* array.filter((_, i) => i !== index), lines 55
RemoveAt(seq, index) ==
    [i \in 1..(Len(seq) - 1) |-> IF i < index THEN seq[i] ELSE seq[i + 1]]

\* githubRepos.filter(r => r.id != repo), line 80
WithoutRepo(repos, repo) == SelectSeq(repos, LAMBDA r : r # repo)

RepoIds(repos) == {repos[i] : i \in 1..Len(repos)}

\* lines 97-116: the query handed to router.replace
StrippedQuery(q) ==
    IF Truthy(q.status) \/ Truthy(q.message)
      THEN [q EXCEPT !.status = IF Truthy(q.status) THEN None ELSE @,
                     !.message = IF q.status = "0" /\ Truthy(q.message) THEN None ELSE @]
      ELSE q

\* line 105
ReturnToast(q) ==
    IF q.status = "0" /\ Truthy(q.message)
      THEN [level |-> "error", text |-> q.message]
      ELSE NoToast

\* line 102
ReturnUsername(q, current) ==
    IF q.status = "1" /\ Truthy(q.username) THEN q.username ELSE current

RepoInit ==
    /\ repoNav = "unmounted"
    /\ githubRepos = <<>>
    /\ newRepos = <<"">>
    /\ repoLoading = TRUE
    /\ repoError = None
    /\ query \in [status : StatusValues, username : UsernameValues,
                  message : ReturnMessageValues, tab : TabValues]
    /\ returnQuery = query
    /\ githubUsername = None
    /\ repoInflight = EmptyBag
    /\ repoToast = NoToast
    /\ submitted = <<>>
    /\ repoLast = [op |-> "init", repo |-> 0]

\* the two mount effects, lines 29-48 and 92-117
RepoMount ==
    /\ repoNav = "unmounted"
    /\ repoNav' = "live"
    /\ repoInflight' = Issue(repoInflight, [kind |-> "get", repo |-> 0, repos |-> <<>>])
    /\ githubUsername' = ReturnUsername(query, githubUsername)
    /\ repoToast' = ReturnToast(query)
    /\ query' = StrippedQuery(query)
    /\ repoLast' = [op |-> "mount", repo |-> 0]
    /\ UNCHANGED <<githubRepos, newRepos, repoLoading, repoError, submitted,
                   returnQuery, teamVars, serverTeams>>

\* fetchRepositories after its await, lines 34-35 and 40
FetchReposOk ==
    \E req \in BagToSet(repoInflight), list \in ServerRepoLists :
        /\ repoNav = "live"
        /\ req.kind = "get"
        /\ repoInflight' = Settle(repoInflight, req)
        /\ githubRepos' = list
        /\ repoLoading' = FALSE
        /\ repoToast' = NoToast
        /\ repoLast' = [op |-> "fetchOk", repo |-> 0]
        /\ UNCHANGED <<repoNav, newRepos, repoError, query, githubUsername,
                       submitted, returnQuery, teamVars, serverTeams>>

\* fetchRepositories after its await, lines 36-44: a non-200 response or a throw
FetchReposError ==
    \E req \in BagToSet(repoInflight),
       err \in {"teams unavailable", SERVER_ERROR, FETCH_FAILED} :
        /\ repoNav = "live"
        /\ req.kind = "get"
        /\ repoInflight' = Settle(repoInflight, req)
        /\ repoError' = err
        /\ repoLoading' = FALSE
        /\ repoToast' = NoToast
        /\ repoLast' = [op |-> "fetchErr", repo |-> 0]
        /\ UNCHANGED <<repoNav, githubRepos, newRepos, query, githubUsername,
                       submitted, returnQuery, teamVars, serverTeams>>

\* lines 50-52
handleAddInput ==
    /\ Rendered
    /\ Len(newRepos) < MaxEntries
    /\ newRepos' = newRepos \o <<"">>
    /\ repoToast' = NoToast
    /\ repoLast' = [op |-> "add", repo |-> 0]
    /\ UNCHANGED <<repoNav, githubRepos, repoLoading, repoError, query,
                   githubUsername, repoInflight, submitted, returnQuery, teamVars, serverTeams>>

\* lines 54-57
handleRemoveInput ==
    \E index \in 1..Len(newRepos) :
        /\ Rendered
        /\ newRepos' = RemoveAt(newRepos, index)
        /\ repoToast' = NoToast
        /\ repoLast' = [op |-> "remove", repo |-> 0]
        /\ UNCHANGED <<repoNav, githubRepos, repoLoading, repoError, query,
                       githubUsername, repoInflight, submitted, returnQuery, teamVars, serverTeams>>

\* lines 59-62
handleInputChange ==
    \E index \in 1..Len(newRepos), value \in EntryValues :
        /\ Rendered
        /\ value # newRepos[index]
        /\ newRepos' = [i \in 1..Len(newRepos) |-> IF i = index THEN value ELSE newRepos[i]]
        /\ repoToast' = NoToast
        /\ repoLast' = [op |-> "edit", repo |-> 0]
        /\ UNCHANGED <<repoNav, githubRepos, repoLoading, repoError, query,
                       githubUsername, repoInflight, submitted, returnQuery, teamVars, serverTeams>>

\* lines 66-73, behind the button of lines 169-177
handleSaveRepositories ==
    /\ SubmitEnabled
    /\ repoNav' = "redirected"
    /\ submitted' = newRepos
    /\ repoToast' = NoToast
    /\ repoLast' = [op |-> "save", repo |-> 0]
    /\ UNCHANGED <<githubRepos, newRepos, repoLoading, repoError, query,
                   githubUsername, repoInflight, returnQuery, teamVars, serverTeams>>

\* handleRepoDelete up to its await, lines 75-78, behind the icon of line 145
handleRepoDelete ==
    \E repo \in RepoIds(githubRepos) :
        /\ Rendered
        /\ BagCardinality(repoInflight) < MaxDeletes
        /\ repoInflight' = Issue(repoInflight,
                                 [kind |-> "delete", repo |-> repo, repos |-> githubRepos])
        /\ repoToast' = NoToast
        /\ repoLast' = [op |-> "delete", repo |-> repo]
        /\ UNCHANGED <<repoNav, githubRepos, newRepos, repoLoading, repoError, query,
                       githubUsername, submitted, returnQuery, teamVars, serverTeams>>

\* handleRepoDelete after its await, lines 79-81
DeleteOk ==
    \E req \in BagToSet(repoInflight) :
        /\ repoNav = "live"
        /\ req.kind = "delete"
        /\ repoInflight' = Settle(repoInflight, req)
        /\ githubRepos' = WithoutRepo(req.repos, req.repo)
        /\ repoToast' = [level |-> "success", text |-> DELETED]
        /\ repoLast' = [op |-> "deleteOk", repo |-> req.repo]
        /\ UNCHANGED <<repoNav, newRepos, repoLoading, repoError, query,
                       githubUsername, submitted, returnQuery, teamVars, serverTeams>>

\* handleRepoDelete after its await, lines 82-84; the text is the prefix
\* 'Failed to delete repository  ' followed by res.data.message
DeleteFail ==
    \E req \in BagToSet(repoInflight), m \in DeleteMessageValues :
        /\ repoNav = "live"
        /\ req.kind = "delete"
        /\ repoInflight' = Settle(repoInflight, req)
        /\ repoToast' = [level |-> "error", text |-> m]
        /\ repoLast' = [op |-> "deleteFail", repo |-> req.repo]
        /\ UNCHANGED <<repoNav, githubRepos, newRepos, repoLoading, repoError, query,
                       githubUsername, submitted, returnQuery, teamVars, serverTeams>>

\* handleRepoDelete, lines 85-87: deleteHandler threw
DeleteThrow ==
    \E req \in BagToSet(repoInflight) :
        /\ repoNav = "live"
        /\ req.kind = "delete"
        /\ repoInflight' = Settle(repoInflight, req)
        /\ repoError' = DELETE_FAILED
        /\ repoToast' = NoToast
        /\ repoLast' = [op |-> "deleteThrow", repo |-> req.repo]
        /\ UNCHANGED <<repoNav, githubRepos, newRepos, repoLoading, query,
                       githubUsername, submitted, returnQuery, teamVars, serverTeams>>

\* the component is not on the page
RepoIdle ==
    /\ RepoInit
    /\ query = [status |-> None, username |-> None, message |-> None, tab |-> None]

\* the dashboard is not on the page
TeamIdle == TeamInit /\ hackathonId

\* no server contents are fixed: the responses are arbitrary
NoServer == serverTeams = <<>>

Init == TeamInit /\ RepoIdle /\ NoServer

Next ==
    \/ Mount
    \/ SetSearch
    \/ SetTrack
    \/ SetEliminated
    \/ SetOverallScore
    \/ SetOrder
    \/ FetchNext
    \/ FetchOk
    \/ FetchError

Spec == Init /\ [][Next]_vars

\* the component opened without a return query: linked repositories and deletes
InitRepos == RepoIdle /\ TeamIdle /\ NoServer

NextRepos ==
    \/ RepoMount
    \/ FetchReposOk
    \/ FetchReposError
    \/ handleRepoDelete
    \/ DeleteOk
    \/ DeleteFail
    \/ DeleteThrow

SpecRepos == InitRepos /\ [][NextRepos]_vars

\* the component opened without a return query: the URL entry list
NextLinks ==
    \/ RepoMount
    \/ FetchReposOk
    \/ FetchReposError
    \/ handleAddInput
    \/ handleRemoveInput
    \/ handleInputChange
    \/ handleSaveRepositories

SpecLinks == InitRepos /\ [][NextLinks]_vars

\* the component opened on return from the linking redirect, up to its first render
InitReturn == RepoInit /\ TeamIdle /\ NoServer

NextReturn ==
    \/ RepoMount
    \/ FetchReposOk
    \/ FetchReposError

SpecReturn == InitReturn /\ [][NextReturn]_vars

(***************************************************************************)
(* Pagination against a server that holds a fixed, finite list of teams    *)
(* for the filter combination and answers every request 200 with the       *)
(* requested slice of it; the filters are left alone and InfiniteScroll    *)
(* calls next() only when no fetch is outstanding.                         *)
(***************************************************************************)

\* the cursor values the run is followed to; exhaustion comes earlier
TermPageCap == MaxServerTeams \div PageLimit + 4

\* the teams of page p (pages count from 1) at `limit` teams a page
ServerPage(p, limit) ==
    LET n  == Len(serverTeams)
        lo == (p - 1) * limit + 1
        hi == IF p * limit < n THEN p * limit ELSE n
    IN  IF p < 1 \/ lo > n THEN <<>> ELSE SubSeq(serverTeams, lo, hi)

\* the 200 response to a request: { teams } for its page=..&limit=20
ServerResponse(req) ==
    [statusCode |-> 200, hasTeams |-> TRUE,
     teams |-> ServerPage(req.urlPage, PageLimit), message |-> None]

InitTerm ==
    /\ TeamIdle
    /\ RepoIdle
    /\ serverTeams \in {[i \in 1..n |-> i] : n \in 0..MaxServerTeams}

\* line 233, with no fetch outstanding
ScrollNext ==
    /\ nav = "live"
    /\ hasMore
    /\ inflight = EmptyBag
    /\ page < TermPageCap
    /\ CallNext

\* fetchTeams after its await, lines 75-84, on the server's answer
ServerOk ==
    \E req \in BagToSet(inflight) : HandleOk(req, ServerResponse(req))

NextTerm ==
    \/ Mount
    \/ ScrollNext
    \/ ServerOk

\* the mount effect runs, InfiniteScroll keeps calling next() while it may, and
\* every request is answered
SpecTerm ==
    /\ InitTerm
    /\ [][NextTerm]_vars
    /\ WF_vars(Mount)
    /\ WF_vars(ScrollNext)
    /\ WF_vars(ServerOk)

(***************************************************************************)
(* Properties of the team dashboard.                                       *)
(***************************************************************************)

\* a 200 response was handled by the last step
JustMerged == last.op = "ok"

\* C1: no response to a fetch issued under a previous filter combination is
\* merged into the held list after the filter change: the request whose 200
\* response was just handled was issued under the current run of the filter
\* effect.
C1_StaleFetchNeverMerged ==
    JustMerged => lastMerged.req.epoch = epoch

\* C2: a 200 response to a request that carried page=1, whether issued by the
\* filter effect or by next() while the cursor was 1, sets the held list to
\* exactly the teams returned.
C2_PageOneReplaces ==
    (JustMerged /\ lastMerged.req.urlPage = 1) => teams = lastMerged.returned

\* next() was called at cursor 1 and its non-empty response was merged after the
\* effect's own page-1 response had already filled the list
C2_Witness ==
    /\ JustMerged
    /\ lastMerged.req.initialPage = 0
    /\ lastMerged.req.urlPage = 1
    /\ lastMerged.req.epoch = epoch
    /\ lastMerged.returned # <<>>
    /\ merged = <<1, 1>>

\* C3: an append whose combined list (line 79) is as long as the list it was
\* appended to (line 80) leaves hasMore false, and hasMore goes from false to
\* true only by the reset of the filter effect.
C3_ExhaustedUntilReset ==
    [][ /\ ( /\ last'.op = "ok"
             /\ lastMerged'.req.initialPage # 1
             /\ Len(lastMerged'.req.teams \o lastMerged'.returned)
                  = Len(lastMerged'.req.teams) )
           => ~hasMore'
        /\ (~hasMore /\ hasMore')
           => (last'.op = "filter" /\ page' = 1 /\ teams' = <<>>) ]_vars

\* hasMore was set to false and a later non-empty append left it false
C3_Witness ==
    /\ JustMerged
    /\ ~hasMore
    /\ lastMerged.req.initialPage = 0
    /\ lastMerged.returned # <<>>

\* C4: hasMore is false only if the most recent 200 response merged into the
\* list was an append for the current filter combination that contributed no
\* team.
C4_HasMoreConsistent ==
    ~hasMore =>
        /\ lastMerged.req # NoReq
        /\ lastMerged.req.initialPage # 1
        /\ lastMerged.req.epoch = epoch
        /\ lastMerged.returned = <<>>

\* C7: a non-200 response emits the server message if there is one (an empty
\* message counts as none) and SERVER_ERROR otherwise, leaves teams, page and
\* hasMore as they were, and issues no request.
C7_ErrorLeavesState ==
    [][ last'.op = "err" =>
          /\ last'.res.statusCode # 200
          /\ (last'.res.message \notin {None, ""} => toast' = last'.res.message)
          /\ (last'.res.message \in {None, ""} => toast' = SERVER_ERROR)
          /\ teams' = teams
          /\ page' = page
          /\ hasMore' = hasMore
          /\ BagCardinality(inflight') = BagCardinality(inflight) - 1 ]_vars

\* a failed fetch with a server message was handled while a list was held
C7_Witness ==
    /\ last.op = "err"
    /\ toast = "teams unavailable"
    /\ teams # <<>>
    /\ page = 2

\* C9: between two resets the merged responses are for pages 1, 2, 3, ... in
\* order, each once: the cursor is one plus the number of merged responses of
\* the current filter combination.
C9_PagesInOrder ==
    nav = "live" =>
        /\ page = Len(merged) + 1
        /\ \A i \in 1..Len(merged) : merged[i] = i

(***************************************************************************)
(* Properties of RepositoriesComponent.                                    *)
(***************************************************************************)

\* C5: the submit button is enabled only when every non-empty entry is a valid
\* URL, and is not available for an empty entry list; ["not-a-url"] disables
\* it and ["https://github.com/org/repo"] enables it.
C5_SubmitOnlyValid ==
    /\ SubmitEnabled =>
         \A i \in 1..Len(newRepos) : newRepos[i] # "" => newRepos[i] \in ValidURLs
    /\ newRepos = <<>> => ~SubmitAvailable
    /\ (Rendered /\ newRepos = <<"not-a-url">>) => ~SubmitEnabled
    /\ (Rendered /\ newRepos = <<"https://github.com/org/repo">>) => SubmitEnabled

\* an entry was removed and the two entries left are valid: the button is enabled
C5_Witness ==
    /\ repoLast.op = "remove"
    /\ SubmitEnabled
    /\ Len(newRepos) = 2

\* C10: while the form is rendered the submit button is enabled exactly when
\* the list is non-empty and every entry, the empty ones included, is a valid
\* URL; the initial list and the list right after "New Link", which appends one
\* empty entry and changes no other, are not submittable.
C10_SubmitExactlyAllValid ==
    /\ [](Rendered =>
            (SubmitEnabled <=>
               (Len(newRepos) > 0 /\ \A i \in 1..Len(newRepos) : newRepos[i] \in ValidURLs)))
    /\ []((newRepos = <<"">> \/ repoLast.op = "add") => ~SubmitEnabled)
    /\ [][repoLast'.op = "add" =>
            /\ Len(newRepos') = Len(newRepos) + 1
            /\ newRepos'[Len(newRepos')] = ""
            /\ \A i \in 1..Len(newRepos) : newRepos'[i] = newRepos[i]]_vars

\* "New Link" was pressed on a list whose entries are all valid
C10_Witness ==
    /\ repoLast.op = "add"
    /\ Rendered
    /\ Len(newRepos) = 2
    /\ newRepos[1] \in ValidURLs

\* C6: when the DELETE for r returns 200 the held list afterwards is the list
\* held just before with exactly the entries of id r removed.
C6_DeleteRemovesExactly ==
    [][repoLast'.op = "deleteOk" =>
         githubRepos' = SelectSeq(githubRepos, LAMBDA r : r # repoLast'.repo)]_vars

\* the mount handler showed the notification of the return query
ReturnNotified == repoNav = "live" /\ ReturnToast(returnQuery) # NoToast

\* C8: once the mount handler has shown the notification of a return query
\* holding status, username or message, the visible query holds none of the
\* three and keeps every other parameter.
C8_ReturnParamsStripped ==
    ReturnNotified =>
        /\ query.status = None
        /\ query.username = None
        /\ query.message = None
        /\ query.tab = returnQuery.tab

\* C11: against a finite server answering 200, with the filters unchanged and
\* next() called one fetch at a time while hasMore holds, hasMore eventually
\* becomes false and stays false, no page is requested while it is false, and
\* the cursor never comes near the value the run is followed to.
C11_PaginationTerminates ==
    /\ <>[](~hasMore /\ inflight = EmptyBag)
    /\ [][~hasMore => last'.op # "next"]_vars
    /\ [](page < TermPageCap)

\* three pages of teams were loaded before the empty fourth page ended pagination
C11_Witness ==
    /\ ~hasMore
    /\ inflight = EmptyBag
    /\ Len(teams) > 2 * PageLimit
    /\ teams = serverTeams
    /\ merged = <<1, 2, 3, 4>>

=============================================================================
